---------------------------- MODULE Spec2Model ----------------------------
(***************************************************************************)
(* A model of the XVG reader (src/xvg.py, class XvgSingle; src/xvg/xvg.py  *)
(* holds the same code as class XVG).                                      *)
(*                                                                         *)
(* A Python string is modelled as a sequence of one-character strings, so  *)
(* that startswith, strip, split, the RE_SPLIT regular expression, the     *)
(* unquoting, int() and float() are computed character by character.       *)
(***************************************************************************)
EXTENDS Integers, Sequences, FiniteSets, TLC

(***************************************************************************)
(* Bounds of the model.                                                    *)
(***************************************************************************)
\* Total number of lines handed to parse over the life of one table.
MaxLines == 3
\* Iterations of the loop of the columns property that are explored.
MaxIter == 5

(***************************************************************************)
(* Characters and Python's string primitives.                              *)
(***************************************************************************)
Whitespace == {" ", "\t", "\n", "\r"}
Digit == {"0", "1", "2", "3", "4", "5", "6", "7", "8", "9"}
Quote == {"\"", "'"}

DigitVal(c) ==
    CASE c = "0" -> 0 [] c = "1" -> 1 [] c = "2" -> 2 [] c = "3" -> 3
      [] c = "4" -> 4 [] c = "5" -> 5 [] c = "6" -> 6 [] c = "7" -> 7
      [] c = "8" -> 8 [] c = "9" -> 9

\* s[from:] with a 1-based first position
From(s, k) == SubSeq(s, k, Len(s))

\* str.startswith(prefix)
StartsWith(s, prefix) ==
    /\ Len(s) >= Len(prefix)
    /\ SubSeq(s, 1, Len(prefix)) = prefix

RECURSIVE LStrip(_)
LStrip(s) ==
    IF s # <<>> /\ Head(s) \in Whitespace THEN LStrip(Tail(s)) ELSE s

RECURSIVE RStrip(_)
RStrip(s) ==
    IF s # <<>> /\ s[Len(s)] \in Whitespace
    THEN RStrip(SubSeq(s, 1, Len(s) - 1))
    ELSE s

\* str.strip()
Strip(s) == RStrip(LStrip(s))

\* Length of the longest prefix of s made of characters outside stop.
RECURSIVE SpanNot(_, _)
SpanNot(s, stop) ==
    IF s = <<>> \/ Head(s) \in stop THEN 0 ELSE 1 + SpanNot(Tail(s), stop)

\* str.split(): the maximal runs of non-whitespace characters, in order.
RECURSIVE Split(_)
Split(s) ==
    LET t == LStrip(s)
        n == SpanNot(t, Whitespace)
    IN  IF t = <<>> THEN <<>>
        ELSE <<SubSeq(t, 1, n)>> \o Split(From(t, n + 1))

(***************************************************************************)
(* RE_SPLIT = ((?:[^\s"']|"[^"]*"|'[^']*')+) and RE_SPLIT.findall.         *)
(***************************************************************************)
\* Length of the one alternative of the group that matches at the head of
\* s, 0 when none does: a character that is neither whitespace nor a quote,
\* or a quote up to and including the next occurrence of the same quote.
AltLen(s) ==
    IF s = <<>> THEN 0
    ELSE IF Head(s) \in Quote
         THEN LET n == SpanNot(Tail(s), {Head(s)})
              IN  IF n < Len(s) - 1 THEN n + 2 ELSE 0
         ELSE IF Head(s) \in Whitespace THEN 0 ELSE 1

\* Length of the greedy repetition (...)+ matched at the head of s.
RECURSIVE MatchLen(_)
MatchLen(s) ==
    LET n == AltLen(s)
    IN  IF n = 0 THEN 0 ELSE n + MatchLen(From(s, n + 1))

\* findall: scan left to right; where nothing matches, skip one character.
RECURSIVE FindAll(_)
FindAll(s) ==
    IF s = <<>> THEN <<>>
    ELSE LET n == MatchLen(s)
         IN  IF n = 0 THEN FindAll(Tail(s))
             ELSE <<SubSeq(s, 1, n)>> \o FindAll(From(s, n + 1))

\* Unquote with the quotation marks left in place.
UnquoteKept(token) == token

\* token[1:-1] if token[0] == token[-1] and token[0] in '"\'' else token
Unquote(token) ==
    IF token[1] = token[Len(token)] /\ token[1] \in Quote
    THEN SubSeq(token, 2, Len(token) - 1)
    ELSE token

\* The tokens of a header line: line[1:].strip() split by RE_SPLIT, unquoted.
HeaderTokens(line) ==
    LET raw == FindAll(Strip(Tail(line)))
    IN  [k \in 1..Len(raw) |-> Unquote(raw[k])]

(***************************************************************************)
(* int(), float() and numpy.array(values, dtype='float').                  *)
(***************************************************************************)
\* The digits of s with the group separator "_" removed.
RECURSIVE DigitsOf(_)
DigitsOf(s) ==
    IF s = <<>> THEN <<>>
    ELSE IF Head(s) = "_" THEN DigitsOf(Tail(s))
         ELSE <<Head(s)>> \o DigitsOf(Tail(s))

\* A digit string as Python accepts it: digits, single "_" between digits.
IsDigitString(s) ==
    /\ s # <<>>
    /\ \A k \in 1..Len(s) : s[k] \in Digit \cup {"_"}
    /\ s[1] \in Digit /\ s[Len(s)] \in Digit
    /\ \A k \in 1..(Len(s) - 1) : ~(s[k] = "_" /\ s[k + 1] = "_")

RECURSIVE DecimalValue(_)
DecimalValue(ds) ==
    IF ds = <<>> THEN 0
    ELSE 10 * DecimalValue(SubSeq(ds, 1, Len(ds) - 1)) + DigitVal(ds[Len(ds)])

\* A leading sign, taken off: <<sign, rest>>.
Signed(s) ==
    IF s # <<>> /\ s[1] = "-" THEN <<-1, Tail(s)>>
    ELSE IF s # <<>> /\ s[1] = "+" THEN <<1, Tail(s)>>
    ELSE <<1, s>>

\* int(s) succeeds: surrounding whitespace, an optional sign, a digit string.
IsInt(s) == IsDigitString(Signed(Strip(s))[2])

\* int(s), where it succeeds.
IntValue(s) ==
    LET sg == Signed(Strip(s)) IN sg[1] * DecimalValue(DigitsOf(sg[2]))

\* The parts of a decimal literal: sign, digits before and after the ".".
FloatParts(s) ==
    LET sg == Signed(Strip(s))
        n == SpanNot(sg[2], {"."})
    IN  [sign |-> sg[1], int |-> SubSeq(sg[2], 1, n), frac |-> From(sg[2], n + 2)]

\* float(s) succeeds, for decimal literals: surrounding whitespace, an
\* optional sign, digits with at most one ".", a digit on one side of it.
\* (Exponents, "inf" and "nan" are not modelled: no input of the model has
\* the letters they need.)
IsFloat(s) ==
    LET p == FloatParts(s)
    IN  /\ p.int = <<>> \/ IsDigitString(p.int)
        /\ p.frac = <<>> \/ IsDigitString(p.frac)
        /\ p.int # <<>> \/ p.frac # <<>>

\* A float is kept exactly, as mantissa m and number e of decimals
\* (m / 10^e) with no trailing zero decimal: "1", "1.0" and "1." are equal.
RECURSIVE Normal(_)
Normal(f) ==
    IF f.e > 0 /\ f.m % 10 = 0 THEN Normal([m |-> f.m \div 10, e |-> f.e - 1])
    ELSE f

\* float(s), where it succeeds.
FloatValue(s) ==
    LET p == FloatParts(s)
    IN  Normal([m |-> p.sign * DecimalValue(DigitsOf(p.int) \o DigitsOf(p.frac)),
                e |-> Len(DigitsOf(p.frac))])

\* numpy.empty((0,)): the one-dimensional array of length zero.
EmptyArray == [ndim |-> 1, rows |-> <<>>]

\* ArrayFails without the comparison of the row lengths.
ArrayFailsFloatsOnly(values) ==
    \E r \in 1..Len(values) : \E c \in 1..Len(values[r]) :
        ~IsFloat(values[r][c])

\* numpy.array(values, dtype='float') raises ValueError: the rows differ in
\* length, or a string is no float.
ArrayFails(values) ==
    \/ \E r \in 1..Len(values) : Len(values[r]) # Len(values[1])
    \/ \E r \in 1..Len(values) : \E c \in 1..Len(values[r]) :
           ~IsFloat(values[r][c])

\* numpy.array(values, dtype='float'), where it succeeds: the empty list
\* gives the one-dimensional array of shape (0,), n rows of k strings the
\* two-dimensional array of shape (n, k).
NumpyArray(values) ==
    IF values = <<>> THEN EmptyArray
    ELSE [ndim |-> 2,
          rows |-> [r \in 1..Len(values) |->
                       [c \in 1..Len(values[r]) |-> FloatValue(values[r][c])]]]

\* Number of columns of a two-dimensional array (it has at least one row).
NCols(a) == Len(a.rows[1])

\* a[:, j]: IndexError on a one-dimensional array and for j outside
\* -ncols .. ncols-1; a negative j counts from the last column.
ArrayColumn(a, j) ==
    IF a.ndim = 1 \/ j >= NCols(a) \/ j < -NCols(a)
    THEN [exc |-> "IndexError"]
    ELSE LET c == IF j < 0 THEN j + NCols(a) + 1 ELSE j + 1
         IN  [exc |-> "none", val |-> [r \in 1..Len(a.rows) |-> a.rows[r][c]]]

\* a[k] for an integer k: the k-th item along the first axis.
ArrayRow(a, k) ==
    IF k >= Len(a.rows) \/ k < -Len(a.rows)
    THEN [exc |-> "IndexError"]
    ELSE [exc |-> "none",
          val |-> a.rows[IF k < 0 THEN k + Len(a.rows) + 1 ELSE k + 1]]

(***************************************************************************)
(* The dictionary self._columns: the pairs <<name, index>> in insertion    *)
(* order; assigning to a name already present keeps its place.             *)
(***************************************************************************)
DictHas(d, k) == \E j \in 1..Len(d) : d[j][1] = k

DictGet(d, k) == d[CHOOSE j \in 1..Len(d) : d[j][1] = k][2]

DictSet(d, k, v) ==
    IF DictHas(d, k)
    THEN [j \in 1..Len(d) |-> IF d[j][1] = k THEN <<k, v>> ELSE d[j]]
    ELSE Append(d, <<k, v>>)

\* x put into the sorted list l behind every pair whose index is not larger.
RECURSIVE InsertByIndex(_, _)
InsertByIndex(l, x) ==
    IF l = <<>> THEN <<x>>
    ELSE IF l[Len(l)][2] <= x[2] THEN Append(l, x)
         ELSE Append(InsertByIndex(SubSeq(l, 1, Len(l) - 1), x), l[Len(l)])

\* list(sorted(d.items(), key=operator.itemgetter(1))): a stable sort.
RECURSIVE SortedItems(_)
SortedItems(d) ==
    IF d = <<>> THEN <<>>
    ELSE InsertByIndex(SortedItems(SubSeq(d, 1, Len(d) - 1)), d[Len(d)])

(***************************************************************************)
(* The lines the model feeds to parse.                                     *)
(***************************************************************************)
W_title == <<"t", "i", "t", "l", "e">>
W_xaxis == <<"x", "a", "x", "i", "s">>
W_yaxis == <<"y", "a", "x", "i", "s">>
W_legend == <<"l", "e", "g", "e", "n", "d">>

N_T1 == <<"T", " ", "1">>
N_U == <<"U">>
N_X == <<"X">>
N_Y == <<"Y">>
N_PE == <<"P", " ", "E">>
N_B == <<"B">>
N_Z == <<"Z">>

L_Terminator == <<"/", "/", " ", "s">>
L_Comment == <<"#", " ", "c">>
\* @ title "T 1"
L_TitleT1 == <<"@", " ">> \o W_title \o <<" ", "\"">> \o N_T1 \o <<"\"", "\n">>
\* @title U
L_TitleU == <<"@">> \o W_title \o <<" ">> \o N_U
\* @ title
L_TitleNoArg == <<"@", " ">> \o W_title
\* @ xaxis 'X'
L_Xaxis == <<"@", " ">> \o W_xaxis \o <<" ", "'">> \o N_X \o <<"'">>
\* @ yaxis  "Y"
L_Yaxis == <<"@", " ">> \o W_yaxis \o <<" ", " ", "\"">> \o N_Y \o <<"\"">>
\* @ s0 legend "P E"
L_LegendPE0 ==
    <<"@", " ", "s", "0", " ">> \o W_legend \o <<" ", "\"">> \o N_PE \o <<"\"">>
\* @ s0 legend "B"
L_LegendB0 ==
    <<"@", " ", "s", "0", " ">> \o W_legend \o <<" ", "\"">> \o N_B \o <<"\"">>
\* @ s1 legend "P E"
L_LegendPE1 ==
    <<"@", " ", "s", "1", " ">> \o W_legend \o <<" ", "\"">> \o N_PE \o <<"\"">>
\* @ s0 legend
L_LegendNoArg == <<"@", " ", "s", "0", " ">> \o W_legend
\* @ sx legend "B"
L_LegendSx ==
    <<"@", " ", "s", "x", " ">> \o W_legend \o <<" ", "\"">> \o N_B \o <<"\"">>
\* @ TYPE xy
L_Type == <<"@", " ", "T", "Y", "P", "E", " ", "x", "y">>
L_Data123 == <<"1", " ", "2", " ", "3">>
L_Data213 == <<"2", " ", " ", "1", ".", "0", "\t", "3", "\n">>
L_Data5 == <<"5">>
L_DataX == <<"1", " ", "x", " ", "3">>
L_Empty == <<"\n">>

Lines ==
    { L_Terminator, L_Comment, L_TitleT1, L_TitleU, L_TitleNoArg, L_Xaxis,
      L_Yaxis, L_LegendPE0, L_LegendB0, L_LegendPE1, L_LegendNoArg,
      L_LegendSx, L_Type, L_Data123, L_Data213, L_Data5, L_DataX, L_Empty }

\* The sequences over S of length at most n.
SeqUpTo(S, n) == UNION {[1..k -> S] : k \in 0..n}

\* The keys the model hands to __getitem__: strings, integers, a slice.
Keys ==
    {[kind |-> "str", name |-> n, idx |-> 0] : n \in {N_PE, N_B, N_Z}}
        \cup {[kind |-> "int", name |-> <<>>, idx |-> k] : k \in {-1}}
        \cup {[kind |-> "slice", name |-> <<>>, idx |-> 0]}

(***************************************************************************)
(* The state: one table (an XvgSingle instance) and the calls made on it.  *)
(***************************************************************************)
VARIABLES
    title, xlabel, ylabel,  \* self.title, self.xlabel, self.ylabel
    _columns,               \* self._columns
    _array,                 \* self._array
    pc,                     \* "new", then where the last call of parse is
    content, pos,           \* parse: its argument, the lines read from it
    values,                 \* parse: the local list values
    exc,                    \* the exception the last parse raised, or "none"
    fed,                    \* lines handed to parse so far, over all calls
    colPc,                  \* "idle", or "loop" inside the columns property
    items, columns, i,      \* columns: its locals
    ret                     \* what the last __getitem__ or columns gave

vars ==
    <<title, xlabel, ylabel, _columns, _array, pc, content, pos, values, exc,
      fed, colPc, items, columns, i, ret>>

table == <<title, xlabel, ylabel, _columns, _array>>
parseLocals == <<pc, content, pos, values, exc, fed>>
columnsLocals == <<colPc, items, columns, i>>

NoReturn == [of |-> "nothing"]

\* XvgSingle.__init__
Init ==
    /\ _columns = <<>>
    /\ _array = EmptyArray
    /\ xlabel = <<>>
    /\ ylabel = <<>>
    /\ title = <<>>
    /\ pc = "new"
    /\ content = <<>>
    /\ pos = 0
    /\ values = <<>>
    /\ exc = "none"
    /\ fed = 0
    /\ colPc = "idle"
    /\ items = <<>>
    /\ columns = <<>>
    /\ i = 0
    /\ ret = NoReturn

(***************************************************************************)
(* XvgSingle._parse_header_line                                            *)
(***************************************************************************)
\* _translate_commands: the attribute each command sets.
TranslateCommands ==
    (W_title :> "title") @@ (W_xaxis :> "xlabel") @@ (W_yaxis :> "ylabel")

\* The attributes _parse_header_line can change, as they are now.
Attrs ==
    [exc |-> "none", title |-> title, xlabel |-> xlabel, ylabel |-> ylabel,
     cols |-> _columns]

\* Raise with the exception swallowed.
RaiseSwallowed(e) == Attrs

\* raise e: the attributes stay as they are.
Raise(e) == [Attrs EXCEPT !.exc = e]

\* setattr(self, attr, value)
SetAttr(attr, value) ==
    CASE attr = "title" -> [Attrs EXCEPT !.title = value]
      [] attr = "xlabel" -> [Attrs EXCEPT !.xlabel = value]
      [] attr = "ylabel" -> [Attrs EXCEPT !.ylabel = value]

\* LegendColumn without the shift by one.
LegendColumnUnshifted(command) == IntValue(Tail(command))

\* int(command[1:]) + 1
LegendColumn(command) == IntValue(Tail(command)) + 1

\* The branch of a command that starts with "s": tokens[0] == 'legend',
\* tokens.pop(0), self._columns[tokens.pop()] = int(command[1:]) + 1.
\* The right-hand side is evaluated before tokens.pop().
LegendBranch(command, tokens) ==
    IF tokens = <<>> THEN Raise("IndexError")
    ELSE IF tokens[1] # W_legend THEN Attrs
    ELSE IF ~IsInt(Tail(command)) THEN Raise("ValueError")
    ELSE IF Tail(tokens) = <<>> THEN Raise("IndexError")
    ELSE [Attrs EXCEPT
              !.cols = DictSet(_columns, tokens[Len(tokens)], LegendColumn(command))]

\* The attributes after _parse_header_line(line), exc the exception raised.
ParseHeaderLine(line) ==
    LET all == HeaderTokens(line)
        command == all[1]
        tokens == Tail(all)
    IN  IF all = <<>> THEN Raise("IndexError")
        ELSE IF command = W_title
             THEN IF tokens = <<>> THEN Raise("IndexError")
                  ELSE [Attrs EXCEPT !.title = tokens[1]]
        ELSE IF command \in DOMAIN TranslateCommands
             THEN IF tokens = <<>> THEN Raise("IndexError")
                  ELSE SetAttr(TranslateCommands[command], tokens[1])
        ELSE IF StartsWith(command, <<"s">>)
             THEN LegendBranch(command, tokens)
        ELSE Attrs

(***************************************************************************)
(* XvgSingle.parse                                                         *)
(***************************************************************************)
\* IsTerminator asking for three slashes.
IsTerminatorThree(line) == StartsWith(line, <<"/", "/", "/">>)

IsTerminator(line) == StartsWith(line, <<"/", "/">>)
IsHeader(line) == StartsWith(line, <<"@">>)
IsComment(line) == StartsWith(line, <<"#">>)

\* No call is running on the table.
Idle == pc \in {"new", "returned", "raised"} /\ colPc = "idle"

\* parse(content) is called: values = [], the iteration starts. (Next hands
\* it the contents that keep fed within MaxLines.)
ParseCall(c) ==
    /\ Idle
    /\ content' = c
    /\ pos' = 0
    /\ values' = <<>>
    /\ exc' = "none"
    /\ fed' = fed + Len(c)
    /\ pc' = "reading"
    /\ ret' = NoReturn
    /\ UNCHANGED <<table, columnsLocals>>

\* The line the for loop takes next.
Line == content[pos + 1]

Reading == pc = "reading" /\ pos < Len(content)

\* if line.startswith('//'): break
ReadTerminator ==
    /\ Reading
    /\ IsTerminator(Line)
    /\ pos' = pos + 1
    /\ pc' = "finalize"
    /\ UNCHANGED <<table, content, values, exc, fed, columnsLocals, ret>>

\* elif line.startswith('@'): self._parse_header_line(line)
ReadHeader ==
    /\ Reading
    /\ ~IsTerminator(Line) /\ IsHeader(Line)
    /\ LET r == ParseHeaderLine(Line)
       IN  /\ title' = r.title
           /\ xlabel' = r.xlabel
           /\ ylabel' = r.ylabel
           /\ _columns' = r.cols
           /\ exc' = r.exc
           /\ pc' = IF r.exc = "none" THEN "reading" ELSE "raised"
    /\ pos' = pos + 1
    /\ UNCHANGED <<_array, content, values, fed, columnsLocals, ret>>

\* elif line.startswith('#'): continue
ReadComment ==
    /\ Reading
    /\ ~IsTerminator(Line) /\ ~IsHeader(Line) /\ IsComment(Line)
    /\ pos' = pos + 1
    /\ UNCHANGED <<table, pc, content, values, exc, fed, columnsLocals, ret>>

\* else: values.append(line.split())
ReadData ==
    /\ Reading
    /\ ~IsTerminator(Line) /\ ~IsHeader(Line) /\ ~IsComment(Line)
    /\ values' = Append(values, Split(Line))
    /\ pos' = pos + 1
    /\ UNCHANGED <<table, pc, content, exc, fed, columnsLocals, ret>>

\* The iterator is exhausted: the for loop ends.
EndOfContent ==
    /\ pc = "reading"
    /\ pos = Len(content)
    /\ pc' = "finalize"
    /\ UNCHANGED <<table, content, pos, values, exc, fed, columnsLocals, ret>>

\* self._array = numpy.array(values, dtype='float')
Finalize ==
    /\ pc = "finalize"
    /\ IF ArrayFails(values)
       THEN /\ exc' = "ValueError"
            /\ pc' = "raised"
            /\ UNCHANGED _array
       ELSE /\ _array' = NumpyArray(values)
            /\ pc' = "returned"
            /\ UNCHANGED exc
    /\ UNCHANGED <<title, xlabel, ylabel, _columns, content, pos, values, fed,
                   columnsLocals, ret>>

(***************************************************************************)
(* XvgSingle.__getitem__                                                   *)
(***************************************************************************)
\* hash(key) raises no TypeError (the code calls this key_is_mutable).
Hashable(key) == key.kind # "slice"

\* self._array[key], for the keys of the model: a string is no index, an
\* integer takes a row, the slice [:] takes everything.
ArrayItem(a, key) ==
    CASE key.kind = "str" -> [exc |-> "IndexError"]
      [] key.kind = "int" -> ArrayRow(a, key.idx)
      [] key.kind = "slice" -> [exc |-> "none", val |-> a.rows]

\* The names in self._columns are strings: only a string key can be in it.
GetItem(key) ==
    IF Hashable(key) /\ key.kind = "str" /\ DictHas(_columns, key.name)
    THEN ArrayColumn(_array, DictGet(_columns, key.name))
    ELSE ArrayItem(_array, key)

GetItemCall(key) ==
    /\ Idle
    /\ ret' = [of |-> "getitem", key |-> key, res |-> GetItem(key)]
    /\ UNCHANGED <<table, parseLocals, columnsLocals>>

(***************************************************************************)
(* XvgSingle.columns                                                       *)
(***************************************************************************)
\* items = list(sorted(...)); columns = []; i = 0
ColumnsCall ==
    /\ Idle
    /\ items' = SortedItems(_columns)
    /\ columns' = <<>>
    /\ i' = 0
    /\ colPc' = "loop"
    /\ ret' = NoReturn
    /\ UNCHANGED <<table, parseLocals>>

\* HeadIsDue one position early.
HeadIsDueEarly(its, k) == its[1][2] = k + 1

\* items[0][1] == i
HeadIsDue(its, k) == its[1][2] = k

\* One iteration of "while items:"
ColumnsStep ==
    /\ colPc = "loop"
    /\ items # <<>>
    /\ i < MaxIter
    /\ IF HeadIsDue(items, i)
       THEN /\ columns' = Append(columns, items[1][1])
            /\ items' = Tail(items)
       ELSE /\ columns' = Append(columns, <<>>)
            /\ UNCHANGED items
    /\ i' = i + 1
    /\ UNCHANGED <<table, parseLocals, colPc, ret>>

\* items is empty: return columns
ColumnsReturn ==
    /\ colPc = "loop"
    /\ items = <<>>
    /\ ret' = [of |-> "columns", res |-> columns]
    /\ colPc' = "idle"
    /\ columns' = <<>>
    /\ i' = 0
    /\ UNCHANGED <<table, parseLocals, items>>

Next ==
    \/ \E c \in SeqUpTo(Lines, MaxLines - fed) : ParseCall(c)
    \/ ReadTerminator
    \/ ReadHeader
    \/ ReadComment
    \/ ReadData
    \/ EndOfContent
    \/ Finalize
    \/ \E key \in Keys : GetItemCall(key)
    \/ ColumnsCall
    \/ ColumnsStep
    \/ ColumnsReturn

Spec == Init /\ [][Next]_vars

(***************************************************************************)
(* What each line of Lines says, read off the XVG format by hand and not   *)
(* computed by the reader: the properties below compare the reader         *)
(* against it.                                                             *)
(*   kind  "terminator", "comment", "data" (a row of numbers), "baddata"   *)
(*         (a row with a token that is no number), "empty", "meta" (title, *)
(*         xaxis or yaxis with its argument), "legend" (sN legend with its *)
(*         name), "missing" (one of these four without its argument),      *)
(*         "other" (any other directive)                                   *)
(*   attr  the field a "meta" line sets;  arg  its argument, or the name   *)
(*   of a "legend" line;  n  the N of "sN legend";  row  the numbers of a  *)
(*   "data" line;  ntok  the number of tokens of a line that is a row      *)
(***************************************************************************)
F(m) == [m |-> m, e |-> 0]

Desc(text, kind) ==
    [text |-> text, kind |-> kind, attr |-> "", arg |-> <<>>, n |-> 0,
     row |-> <<>>, ntok |-> 0]

LineTable ==
    { Desc(L_Terminator, "terminator"),
      Desc(L_Comment, "comment"),
      [Desc(L_TitleT1, "meta") EXCEPT !.attr = "title", !.arg = N_T1],
      [Desc(L_TitleU, "meta") EXCEPT !.attr = "title", !.arg = N_U],
      [Desc(L_Xaxis, "meta") EXCEPT !.attr = "xlabel", !.arg = N_X],
      [Desc(L_Yaxis, "meta") EXCEPT !.attr = "ylabel", !.arg = N_Y],
      Desc(L_TitleNoArg, "missing"),
      Desc(L_LegendNoArg, "missing"),
      [Desc(L_LegendPE0, "legend") EXCEPT !.arg = N_PE, !.n = 0],
      [Desc(L_LegendB0, "legend") EXCEPT !.arg = N_B, !.n = 0],
      [Desc(L_LegendPE1, "legend") EXCEPT !.arg = N_PE, !.n = 1],
      Desc(L_LegendSx, "other"),
      Desc(L_Type, "other"),
      [Desc(L_Data123, "data") EXCEPT !.row = <<F(1), F(2), F(3)>>, !.ntok = 3],
      [Desc(L_Data213, "data") EXCEPT !.row = <<F(2), F(1), F(3)>>, !.ntok = 3],
      [Desc(L_Data5, "data") EXCEPT !.row = <<F(5)>>, !.ntok = 1],
      [Desc(L_DataX, "baddata") EXCEPT !.ntok = 3],
      Desc(L_Empty, "empty") }

Described(line) == CHOOSE d \in LineTable : d.text = line

Kind(k) == Described(content[k]).kind

Max(S) == CHOOSE x \in S : \A y \in S : y <= x
Min(S) == CHOOSE x \in S : \A y \in S : x <= y

\* The position of the first terminator of content, one past its end when
\* it has none.
StopIndex ==
    Min({k \in 1..Len(content) : Kind(k) = "terminator"} \cup {Len(content) + 1})

\* The positions of the lines before the terminator (or the end).
Before == 1..(StopIndex - 1)

\* The lines before the terminator that start with neither @ nor #.
RowKinds == {"data", "baddata", "empty"}

RECURSIVE RowsUpTo(_)
RowsUpTo(k) ==
    IF k = 0 THEN <<>>
    ELSE IF Kind(k) \in RowKinds
         THEN Append(RowsUpTo(k - 1), Described(content[k]).row)
         ELSE RowsUpTo(k - 1)

StrKey(name) == [kind |-> "str", name |-> name, idx |-> 0]

C1_RowsBeforeTerminator ==
    /\ pos <= StopIndex
    /\ pos <= Len(content)
    /\ pc \in {"finalize", "returned"} => pos = Min({StopIndex, Len(content)})
    /\ pc = "returned" =>
           LET rows == RowsUpTo(StopIndex - 1)
           IN  _array = IF rows = <<>> THEN EmptyArray
                        ELSE [ndim |-> 2, rows |-> rows]

C1_CommentStep ==
    (pc = "reading" /\ pos < Len(content) /\ Kind(pos + 1) = "comment")
        => UNCHANGED <<title, xlabel, ylabel, _columns, _array, values>>

(***************************************************************************)
(* C1: parse stops reading at the first line that starts with //: no line  *)
(* behind it is read. When parse returns, the rows of the matrix are, in   *)
(* input order, the lines before the terminator (or the end) that start    *)
(* with neither @ nor #. Reading a line that starts with # adds no row     *)
(* and changes no metadata.                                                *)
(***************************************************************************)
C1_TerminatorStopsParse == []C1_RowsBeforeTerminator /\ [][C1_CommentStep]_vars

\* parse returned a matrix with the row in front of a terminator, and the
\* line behind the terminator was not read.
C1_Witness ==
    /\ pc = "returned"
    /\ StopIndex < Len(content)
    /\ _array.ndim = 2
    /\ \E k \in Before : Kind(k) = "data"

(***************************************************************************)
(* C2 as stated: after a successful parse, for every directive             *)
(* sN legend "X" of the input, item access by X gives the matrix column    *)
(* N+1.                                                                    *)
(***************************************************************************)
C2_EveryDirective ==
    pc = "returned" =>
        \A k \in Before :
            Kind(k) = "legend" =>
                GetItem(StrKey(Described(content[k]).arg))
                    = ArrayColumn(_array, Described(content[k]).n + 1)

\* The directive at k is the last one of the input that registers its name.
LastOfName(k) ==
    /\ Kind(k) = "legend"
    /\ \A j \in Before :
           (j > k /\ Kind(j) = "legend")
               => Described(content[j]).arg # Described(content[k]).arg

(***************************************************************************)
(* C2 amended: after a successful parse, for every name X and the last     *)
(* directive sN legend "X" of the input that registers it, item access by  *)
(* X gives the matrix column N+1 (or fails as that column access fails).   *)
(***************************************************************************)
C2_LastDirective ==
    pc = "returned" =>
        \A k \in Before :
            LastOfName(k) =>
                GetItem(StrKey(Described(content[k]).arg))
                    = ArrayColumn(_array, Described(content[k]).n + 1)

\* __getitem__ gave a column for a name that the input registers twice, at
\* two legend indices.
C2_Witness ==
    /\ pc = "returned"
    /\ ret.of = "getitem"
    /\ ret.key.kind = "str"
    /\ ret.res.exc = "none"
    /\ \E k \in Before :
           /\ LastOfName(k)
           /\ Described(content[k]).arg = ret.key.name
           /\ ret.res = ArrayColumn(_array, Described(content[k]).n + 1)
           /\ \E j \in Before :
                  /\ j < k /\ Kind(j) = "legend"
                  /\ Described(content[j]).arg = ret.key.name
                  /\ Described(content[j]).n # Described(content[k]).n

LastMeta(attr) ==
    LET S == {k \in Before : Kind(k) = "meta" /\ Described(content[k]).attr = attr}
    IN  IF S = {} THEN <<>> ELSE Described(content[Max(S)]).arg

(***************************************************************************)
(* C3: after the parse of a well-formed input by a new table, title,       *)
(* xlabel and ylabel are the argument of the last title, xaxis, yaxis      *)
(* directive before the terminator, the empty string when there is none;   *)
(* so a directive of one kind leaves the fields of the other kinds alone.  *)
(***************************************************************************)
C3_LastDirectiveWins ==
    (pc = "returned" /\ fed = Len(content)) =>
        /\ title = LastMeta("title")
        /\ xlabel = LastMeta("xlabel")
        /\ ylabel = LastMeta("ylabel")

\* Two title directives with different arguments and an xaxis directive.
C3_Witness ==
    /\ pc = "returned" /\ fed = Len(content)
    /\ title = N_U /\ xlabel = N_X /\ ylabel = <<>>
    /\ \E j \in Before : content[j] = L_TitleT1

(***************************************************************************)
(* C4: the list the columns property returns has every registered name at  *)
(* the position of its column index, the empty string everywhere else,     *)
(* and is one longer than the highest registered index (empty when no      *)
(* name is registered), whatever the number of columns of the matrix.      *)
(***************************************************************************)
C4_ColumnsByIndex ==
    ret.of = "columns" =>
        LET l == ret.res
            idx == {_columns[j][2] : j \in 1..Len(_columns)}
        IN  /\ \A j \in 1..Len(_columns) :
                   /\ _columns[j][2] + 1 \in 1..Len(l)
                   /\ l[_columns[j][2] + 1] = _columns[j][1]
            /\ \A q \in 1..Len(l) : (q - 1) \notin idx => l[q] = <<>>
            /\ Len(l) = IF idx = {} THEN 0 ELSE Max(idx) + 1

\* One name at column 2 over a matrix of one column: two placeholders.
C4_Witness ==
    /\ ret.of = "columns"
    /\ ret.res = << <<>>, <<>>, N_PE >>
    /\ _array.ndim = 2
    /\ NCols(_array) = 1

\* The lines read so far hold rows parse cannot convert.
BadRows ==
    LET R == {k \in 1..pos : Kind(k) \in RowKinds}
    IN  \/ \E k \in R : Kind(k) = "baddata"
        \/ \E j, k \in R : Described(content[j]).ntok # Described(content[k]).ntok

C5_Step ==
    /\ (pc = "finalize" /\ BadRows)
           => (pc' = "raised" /\ exc' = "ValueError" /\ _array' = _array)
    /\ (pc = "reading" /\ pos < Len(content) /\ Kind(pos + 1) \in RowKinds)
           => (pc' = "reading" /\ exc' = "none")
    /\ (pc = "reading" \/ pc' = "reading") => _array' = _array

(***************************************************************************)
(* C5: when the rows read do not all have the same number of tokens, or a  *)
(* token is no number, parse raises at the conversion that follows the     *)
(* reading, and the matrix of the table stays what it was before the call: *)
(* reading a row never raises, and neither the call nor the reading of a   *)
(* line touches the matrix.                                                *)
(***************************************************************************)
C5_DataErrorAtFinalize == [][C5_Step]_vars

\* A second parse failed on rows of three and of one token; the matrix of
\* the first parse is still there.
C5_Witness ==
    /\ pc = "raised" /\ exc = "ValueError"
    /\ pos = Len(content)
    /\ \A k \in 1..pos : Kind(k) = "data"
    /\ BadRows
    /\ _array.ndim = 2

C6_Step ==
    /\ (pc = "reading" /\ pos < Len(content) /\ Kind(pos + 1) = "missing")
           => /\ pc' = "raised" /\ exc' = "IndexError"
              /\ pos' = pos + 1
              /\ UNCHANGED <<title, xlabel, ylabel, _columns, _array>>
    /\ (pc = "raised" /\ pc' # "reading")
           => UNCHANGED <<pos, title, xlabel, ylabel, _columns, _array>>

(***************************************************************************)
(* C6: a title, xaxis, yaxis or sN legend directive without its argument   *)
(* makes parse raise at that line: no later line is read, no field is set  *)
(* to a default, and no matrix is published.                               *)
(***************************************************************************)
C6_MissingArgumentRaises == [][C6_Step]_vars

\* parse raised at a title directive without argument, with a line behind
\* it unread and the title of an earlier directive kept.
C6_Witness ==
    /\ pc = "raised" /\ exc = "IndexError"
    /\ pos < Len(content)
    /\ content[pos] = L_TitleNoArg
    /\ title = N_T1
    /\ _array = EmptyArray

C7_Step ==
    (pc = "reading" /\ pos < Len(content) /\ Kind(pos + 1) = "other")
        => /\ pc' = "reading" /\ exc' = "none"
           /\ UNCHANGED <<title, xlabel, ylabel, _columns>>

(***************************************************************************)
(* C7: a directive whose command is not title, xaxis or yaxis and is not   *)
(* s followed by digits with first argument legend is ignored: reading it  *)
(* raises nothing and leaves title, xlabel, ylabel and the names alone.    *)
(***************************************************************************)
C7_OtherDirectiveIgnored == [][C7_Step]_vars

(***************************************************************************)
(* C8: when the lines before the terminator are only comments, well-formed *)
(* title, axis and legend directives and empty lines, parse returns and    *)
(* the matrix is the one-dimensional array of length zero.                 *)
(***************************************************************************)
C8_NoRowsGiveEmptyArray ==
    (/\ pc \in {"returned", "raised"}
     /\ \A k \in Before : Kind(k) \in {"comment", "meta", "legend", "empty"})
        => (pc = "returned" /\ _array = EmptyArray)

(***************************************************************************)
(* C9: the column indices of the registered names are non-negative and     *)
(* pairwise distinct.                                                      *)
(***************************************************************************)
C9_IndicesDistinct ==
    /\ \A j \in 1..Len(_columns) : _columns[j][2] >= 0
    /\ \A j, k \in 1..Len(_columns) :
           j # k => _columns[j][2] # _columns[k][2]

(***************************************************************************)
(* C10: reading the columns property terminates, whatever names parse has  *)
(* registered: the loop places every name and returns. An iteration adds   *)
(* one to i and removes the head of items only when its index equals i,    *)
(* so the loop terminates exactly when, in each of its states, the index   *)
(* of the head of items has not yet been passed by i.                      *)
(***************************************************************************)
C10_ColumnsTerminates ==
    (colPc = "loop" /\ items # <<>>) => items[1][2] >= i

=============================================================================
